---- MODULE Spec2Model ----
(***************************************************************************)
(* Falcor light sources (Framework/Source/Graphics/Light.h): the Light     *)
(* base class and its DirectionalLight, PointLight and SpotLight           *)
(* subclasses.  A light is a record of its members; every inline method of *)
(* the header is an operator from a light (and its argument) to the light  *)
(* the call leaves behind, and an action of the state machine applies it   *)
(* to the one light under observation.                                     *)
(*                                                                         *)
(* float values are modelled by small integers (exactly representable, so  *)
(* float multiplication is integer multiplication); a vec3 is a 3-tuple.   *)
(***************************************************************************)
EXTENDS Integers, Sequences, FiniteSets, TLC

VARIABLES
    light,          \* the members of the light object (mName, mColor, mIntensity, mData, ...)
    call,           \* the last public call made on it: [op, arg]
    colorUpdated    \* history: setIntensity or setColor has been called at least once

vars == <<light, call, colorUpdated>>

-----------------------------------------------------------------------------
(* Bounds and input domains *)

\* largest intensity passed to setIntensity (the smallest is -1)
MaxIntensity == 2

\* largest radius / length passed to the PointLight scalar setters (the smallest is -1)
MaxRadius == 0

IntensityValues == -1 .. MaxIntensity
RadiusValues == -1 .. MaxRadius
ColorValues == {<<1, 1, 1>>, <<2, 0, 1>>}
DirValues == {<<0, 0, 0>>, <<0, -1, 0>>}
PosValues == {<<0, 0, 0>>, <<3, 1, -2>>}
UpValues == {<<0, 1, 0>>, <<0, 0, 0>>}
AngleValues == {0, 45, 90}
NameValues == {"", "sun"}
LightClasses == {"DirectionalLight", "PointLight", "SpotLight"}

-----------------------------------------------------------------------------
(* Program constants: the default member initialisers *)

DefaultColorComponent == 1
DefaultIntensity == 1
DefaultInnerConeAngle == 0
DefaultOuterConeAngle == 45

-----------------------------------------------------------------------------
(* glm arithmetic *)

\* vec3 * float, component-wise
VecScale(v, s) == <<v[1] * s, v[2] * s, v[3] * s>>

\* vec3(x): the same value in the three components
Vec3Splat(x) == <<x, x, x>>

-----------------------------------------------------------------------------
(* class Light *)

IsPointLight(L) == L.class \in {"PointLight", "SpotLight"}
IsSpotLight(L) == L.class = "SpotLight"

updateLightColor(L) ==
    [L EXCEPT !.mData.lightColor = VecScale(L.mColor, L.mIntensity)]

setIntensity_Clamped(L, intensity) ==
    updateLightColor([L EXCEPT !.mIntensity = IF intensity < 0 THEN 0 ELSE intensity])

setIntensity_NoUpdate(L, intensity) ==
    [L EXCEPT !.mIntensity = intensity]

setIntensity(L, intensity) ==
    updateLightColor([L EXCEPT !.mIntensity = intensity])

setColor_NoUpdate(L, color) ==
    [L EXCEPT !.mColor = color]

setColor(L, color) ==
    updateLightColor([L EXCEPT !.mColor = color])

\* a setter that normalises and rejects the zero vector
setDirection_Normalised(L, dir) ==
    IF dir = <<0, 0, 0>> THEN L
    ELSE [L EXCEPT !.mData.dirW = dir]

setDirection(L, dir) ==
    [L EXCEPT !.mData.dirW = dir]

setName(L, Name) ==
    [L EXCEPT !.mName = Name]

getIntensity(L) == L.mIntensity
getColor(L) == L.mColor
getDirection(L) == L.mData.dirW
getType(L) == L.mData.type
getData(L) == L.mData
getName(L) == L.mName

-----------------------------------------------------------------------------
(* class DirectionalLight, class PointLight: the GPU hooks are empty *)

prepareGPUData_Recomputes(L) ==
    [L EXCEPT !.mData.lightColor = <<0, 0, 0>>]

prepareGPUData(L) == L

unloadGPUData(L) == L

-----------------------------------------------------------------------------
(* class PointLight *)

setAttenuationRadius(L, radius) ==
    [L EXCEPT !.mData.attenuationRadius = radius]

setPosition(L, pos) ==
    [L EXCEPT !.mData.posW = pos]

\* a setter that also resets the cone of a spot light
setUpVector_ResetsCone(L, up) ==
    IF IsSpotLight(L)
    THEN [L EXCEPT !.mData.upW = up, !.mOuterConeAngle = 0]
    ELSE [L EXCEPT !.mData.upW = up]

setUpVector(L, up) ==
    [L EXCEPT !.mData.upW = up]

\* a copy-and-paste slip: the radius setter writing the length field
setSourceRadius_WritesLength(L, radius) ==
    [L EXCEPT !.mData.sourceLength = radius]

setSourceRadius(L, radius) ==
    [L EXCEPT !.mData.sourceRadius = radius]

setSourceLength(L, length) ==
    [L EXCEPT !.mData.sourceLength = length]

getAttenuationRadius(L) == L.mData.attenuationRadius
getPosition(L) == L.mData.posW
getUpVector(L) == L.mData.upW
getSourceRadius(L) == L.mData.sourceRadius
getSourceLength(L) == L.mData.sourceLength

-----------------------------------------------------------------------------
(* class SpotLight.  The bodies of setInnerConeAngle, setOuterConeAngle,   *)
(* updateConeProperties and of the constructors are not part of the header; *)
(* they are modelled from the specification: the setters store the angle,   *)
(* enforce inner <= outer, and refresh the cone-derived attenuation         *)
(* factors of the light data.  How an out-of-order angle is brought into    *)
(* order is not stated, so every way of doing it is an outcome: the angle   *)
(* is clamped to the other one, the call is ignored, or the other angle is  *)
(* moved along.                                                             *)

\* cone angles -> attenuation factors (kept symbolic: the pair of angles)
ConeFactors(inner, outer) == <<inner, outer>>

updateConeProperties(L) ==
    [L EXCEPT !.mData.coneFactors = ConeFactors(L.mInnerConeAngle, L.mOuterConeAngle)]

setInnerConeAngle_Unchecked(L, angle) ==
    {updateConeProperties([L EXCEPT !.mInnerConeAngle = angle])}

setInnerConeAngle(L, angle) ==
    IF angle <= L.mOuterConeAngle
    THEN {updateConeProperties([L EXCEPT !.mInnerConeAngle = angle])}
    ELSE {updateConeProperties([L EXCEPT !.mInnerConeAngle = L.mOuterConeAngle]),
          L,
          updateConeProperties([L EXCEPT !.mInnerConeAngle = angle,
                                         !.mOuterConeAngle = angle])}

setOuterConeAngle(L, angle) ==
    IF L.mInnerConeAngle <= angle
    THEN {updateConeProperties([L EXCEPT !.mOuterConeAngle = angle])}
    ELSE {updateConeProperties([L EXCEPT !.mOuterConeAngle = L.mInnerConeAngle]),
          L,
          updateConeProperties([L EXCEPT !.mInnerConeAngle = angle,
                                         !.mOuterConeAngle = angle])}

getInnerConeAngle(L) == L.mInnerConeAngle
getOuterConeAngle(L) == L.mOuterConeAngle

-----------------------------------------------------------------------------
(* Construction *)

\* the light type each constructor writes into mData.type
LightTypeOf(class) ==
    CASE class = "DirectionalLight" -> "LightDirectional"
      [] class = "PointLight" -> "LightPoint"
      [] class = "SpotLight" -> "LightSpot"

\* The contents of a LightData before any setter has written to it.  The
\* struct is declared outside the header, so its defaults are any values.
LightDataValues ==
    [posW : PosValues, dirW : DirValues, upW : UpValues,
     lightColor : ColorValues,
     attenuationRadius : RadiusValues, sourceRadius : RadiusValues,
     sourceLength : RadiusValues,
     coneFactors : {ConeFactors(0, 0)},
     type : {"LightPoint"}]

Light_default_Dark(data) ==
    [mName |-> "",
     mColor |-> Vec3Splat(DefaultColorComponent),
     mIntensity |-> 0,
     mData |-> data]

\* Light() = default: the default member initialisers
Light_default(data) ==
    [mName |-> "",
     mColor |-> Vec3Splat(DefaultColorComponent),
     mIntensity |-> DefaultIntensity,
     mData |-> data]

\* SpotLight's own members and their default initialisers (angles in degrees)
SpotLight_members ==
    [mInnerConeAngle |-> DefaultInnerConeAngle,
     mOuterConeAngle |-> DefaultOuterConeAngle]

\* DirectionalLight::create, PointLight::create, SpotLight::create: the
\* members of Light, the class, and for a SpotLight its cone angles and the
\* factors derived from them
create(class, data) ==
    LET base == Light_default([data EXCEPT !.type = LightTypeOf(class)])
    IN  IF class = "SpotLight"
        THEN updateConeProperties(
                 [mName |-> base.mName, mColor |-> base.mColor,
                  mIntensity |-> base.mIntensity, mData |-> base.mData,
                  class |-> class,
                  mInnerConeAngle |-> SpotLight_members.mInnerConeAngle,
                  mOuterConeAngle |-> SpotLight_members.mOuterConeAngle])
        ELSE [mName |-> base.mName, mColor |-> base.mColor,
              mIntensity |-> base.mIntensity, mData |-> base.mData,
              class |-> class]

Init ==
    /\ \E class \in LightClasses : \E data \in LightDataValues :
           light = create(class, data)
    /\ call = [op |-> "create", arg |-> <<>>]
    /\ colorUpdated = FALSE

-----------------------------------------------------------------------------
(* The public calls *)

SetIntensity ==
    \E intensity \in IntensityValues :
        /\ light' = setIntensity(light, intensity)
        /\ call' = [op |-> "setIntensity", arg |-> intensity]
        /\ colorUpdated' = TRUE

SetColor ==
    \E color \in ColorValues :
        /\ light' = setColor(light, color)
        /\ call' = [op |-> "setColor", arg |-> color]
        /\ colorUpdated' = TRUE

SetDirection ==
    \E dir \in DirValues :
        /\ light' = setDirection(light, dir)
        /\ call' = [op |-> "setDirection", arg |-> dir]
        /\ UNCHANGED colorUpdated

SetName ==
    \E Name \in NameValues :
        /\ light' = setName(light, Name)
        /\ call' = [op |-> "setName", arg |-> Name]
        /\ UNCHANGED colorUpdated

PrepareGPUData ==
    /\ light' = prepareGPUData(light)
    /\ call' = [op |-> "prepareGPUData", arg |-> <<>>]
    /\ UNCHANGED colorUpdated

UnloadGPUData ==
    /\ light' = unloadGPUData(light)
    /\ call' = [op |-> "unloadGPUData", arg |-> <<>>]
    /\ UNCHANGED colorUpdated

SetAttenuationRadius ==
    /\ IsPointLight(light)
    /\ \E radius \in RadiusValues :
        /\ light' = setAttenuationRadius(light, radius)
        /\ call' = [op |-> "setAttenuationRadius", arg |-> radius]
    /\ UNCHANGED colorUpdated

SetPosition ==
    /\ IsPointLight(light)
    /\ \E pos \in PosValues :
        /\ light' = setPosition(light, pos)
        /\ call' = [op |-> "setPosition", arg |-> pos]
    /\ UNCHANGED colorUpdated

SetUpVector ==
    /\ IsPointLight(light)
    /\ \E up \in UpValues :
        /\ light' = setUpVector(light, up)
        /\ call' = [op |-> "setUpVector", arg |-> up]
    /\ UNCHANGED colorUpdated

SetSourceRadius ==
    /\ IsPointLight(light)
    /\ \E radius \in RadiusValues :
        /\ light' = setSourceRadius(light, radius)
        /\ call' = [op |-> "setSourceRadius", arg |-> radius]
    /\ UNCHANGED colorUpdated

SetSourceLength ==
    /\ IsPointLight(light)
    /\ \E length \in RadiusValues :
        /\ light' = setSourceLength(light, length)
        /\ call' = [op |-> "setSourceLength", arg |-> length]
    /\ UNCHANGED colorUpdated

SetInnerConeAngle ==
    /\ IsSpotLight(light)
    /\ \E angle \in AngleValues :
        /\ light' \in setInnerConeAngle(light, angle)
        /\ call' = [op |-> "setInnerConeAngle", arg |-> angle]
    /\ UNCHANGED colorUpdated

SetOuterConeAngle ==
    /\ IsSpotLight(light)
    /\ \E angle \in AngleValues :
        /\ light' \in setOuterConeAngle(light, angle)
        /\ call' = [op |-> "setOuterConeAngle", arg |-> angle]
    /\ UNCHANGED colorUpdated

Next ==
    \/ SetIntensity
    \/ SetColor
    \/ SetDirection
    \/ SetName
    \/ PrepareGPUData
    \/ UnloadGPUData
    \/ SetAttenuationRadius
    \/ SetPosition
    \/ SetUpVector
    \/ SetSourceRadius
    \/ SetSourceLength
    \/ SetInnerConeAngle
    \/ SetOuterConeAngle

Spec == Init /\ [][Next]_vars

-----------------------------------------------------------------------------
(* What a caller can observe of a light *)

\* the value a caller reads back under each name
Observable(L, n) ==
    CASE n = "intensity" -> getIntensity(L)
      [] n = "color" -> getColor(L)
      [] n = "direction" -> getDirection(L)
      [] n = "type" -> getType(L)
      [] n = "name" -> getName(L)
      [] n = "lightColor" -> getData(L).lightColor
      [] n = "attenuationRadius" -> getAttenuationRadius(L)
      [] n = "position" -> getPosition(L)
      [] n = "upVector" -> getUpVector(L)
      [] n = "sourceRadius" -> getSourceRadius(L)
      [] n = "sourceLength" -> getSourceLength(L)
      [] n = "cone" -> IF IsSpotLight(L)
                       THEN <<getInnerConeAngle(L), getOuterConeAngle(L)>>
                       ELSE <<>>

ObservableNames ==
    {"intensity", "color", "direction", "type", "name", "lightColor",
     "attenuationRadius", "position", "upVector", "sourceRadius",
     "sourceLength", "cone"}

\* this step leaves every observable value alone, the named ones excepted
UnchangedExcept(names) ==
    \A n \in ObservableNames \ names :
        Observable(light', n) = Observable(light, n)

\* the light data fields no getter of its own covers
DataRestUnchanged ==
    getData(light').coneFactors = getData(light).coneFactors

-----------------------------------------------------------------------------
(* C1: once setIntensity or setColor has been called, the GPU colour        *)
(* getData().lightColor is getColor() scaled component-wise by              *)
(* getIntensity(), in every state and for every kind of light.              *)
C1_LightColorIsColorTimesIntensity ==
    colorUpdated =>
        getData(light).lightColor = VecScale(getColor(light), getIntensity(light))

C1_Witness ==
    /\ colorUpdated
    /\ getColor(light) = <<2, 0, 1>>
    /\ getIntensity(light) = -1
    /\ getData(light).lightColor = <<-2, 0, -1>>

(* C2: on a SpotLight, from creation on and after any setInnerConeAngle and *)
(* setOuterConeAngle calls, getInnerConeAngle() <= getOuterConeAngle().     *)
C2_InnerAtMostOuter ==
    IsSpotLight(light) => getInnerConeAngle(light) <= getOuterConeAngle(light)

\* an inner angle above the outer one was asked for, and was not stored as given
C2_Witness ==
    /\ IsSpotLight(light)
    /\ call.op = "setInnerConeAngle"
    /\ call.arg = 90
    /\ getInnerConeAngle(light) = 45
    /\ getOuterConeAngle(light) = 45

(* C3: setIntensity(i) stores i as given, negative and zero included, and   *)
(* leaves getColor() alone; setColor(c) stores c and leaves getIntensity()  *)
(* alone.                                                                   *)
C3_IntensityAndColorStoredVerbatim ==
    [][/\ call'.op = "setIntensity" =>
            /\ getIntensity(light') = call'.arg
            /\ getColor(light') = getColor(light)
       /\ call'.op = "setColor" =>
            /\ getColor(light') = call'.arg
            /\ getIntensity(light') = getIntensity(light)]_vars

C3_Witness ==
    /\ call.op = "setIntensity"
    /\ call.arg = -1
    /\ getIntensity(light) = -1
    /\ getColor(light) = <<2, 0, 1>>

(* C4: each of setAttenuationRadius, setPosition, setUpVector,              *)
(* setSourceRadius and setSourceLength makes its own getter return the      *)
(* value passed and changes no other observable value of the light.         *)
C4_PointSettersChangeOnlyTheirField ==
    [][/\ call'.op = "setAttenuationRadius" =>
            /\ getAttenuationRadius(light') = call'.arg
            /\ UnchangedExcept({"attenuationRadius"})
       /\ call'.op = "setPosition" =>
            /\ getPosition(light') = call'.arg
            /\ UnchangedExcept({"position"})
       /\ call'.op = "setUpVector" =>
            /\ getUpVector(light') = call'.arg
            /\ UnchangedExcept({"upVector"})
       /\ call'.op = "setSourceRadius" =>
            /\ getSourceRadius(light') = call'.arg
            /\ UnchangedExcept({"sourceRadius"})
       /\ call'.op = "setSourceLength" =>
            /\ getSourceLength(light') = call'.arg
            /\ UnchangedExcept({"sourceLength"})
       /\ call'.op \in {"setAttenuationRadius", "setPosition", "setUpVector",
                        "setSourceRadius", "setSourceLength"} =>
            DataRestUnchanged]_vars

C4_Witness ==
    /\ IsSpotLight(light)
    /\ call.op = "setSourceRadius"
    /\ call.arg = -1
    /\ getSourceRadius(light) = -1
    /\ getSourceLength(light) = 0
    /\ getAttenuationRadius(light) = 0

(* C5: setDirection(d) stores d as given, the zero vector included, and     *)
(* changes no other observable value of the light.                          *)
C5_DirectionStoredVerbatim ==
    [][call'.op = "setDirection" =>
            /\ getDirection(light') = call'.arg
            /\ UnchangedExcept({"direction"})
            /\ DataRestUnchanged]_vars

C5_Witness ==
    /\ call.op = "setDirection"
    /\ call.arg = <<0, 0, 0>>
    /\ getDirection(light) = <<0, 0, 0>>
    /\ getPosition(light) = <<3, 1, -2>>

(* C6: prepareGPUData and unloadGPUData change nothing of the light, in     *)
(* whatever order and however often they are called.                        *)
C6_GpuHooksAreNoOps ==
    [][call'.op \in {"prepareGPUData", "unloadGPUData"} =>
            /\ light' = light
            /\ UnchangedExcept({})
            /\ colorUpdated' = colorUpdated]_vars

\* unloadGPUData on a light whose colour and intensity were set before
C6_Witness ==
    /\ call.op = "unloadGPUData"
    /\ colorUpdated
    /\ getIntensity(light) = 2
    /\ getData(light).lightColor = <<4, 0, 2>>

(* C7: a light no setter has been called on has intensity 1 and colour      *)
(* (1,1,1); a SpotLight also has inner cone angle 0 and outer cone angle    *)
(* 45, so inner <= outer holds from the start.                              *)
C7_FreshLightDefaults ==
    call.op = "create" =>
        /\ getIntensity(light) = 1
        /\ getColor(light) = <<1, 1, 1>>
        /\ IsSpotLight(light) =>
              /\ getInnerConeAngle(light) = 0
              /\ getOuterConeAngle(light) = 45
              /\ getInnerConeAngle(light) <= getOuterConeAngle(light)

C7_Witness ==
    /\ call.op = "create"
    /\ IsSpotLight(light)
    /\ ~colorUpdated

(* C8: from every reachable light, setColor(c) then setIntensity(i) and     *)
(* setIntensity(i) then setColor(c) leave the same light, and either call   *)
(* repeated with the same argument changes nothing more.                    *)
C8_SetColorSetIntensityCommute ==
    \A c \in ColorValues : \A i \in IntensityValues :
        /\ setIntensity(setColor(light, c), i) = setColor(setIntensity(light, i), c)
        /\ setColor(setColor(light, c), c) = setColor(light, c)
        /\ setIntensity(setIntensity(light, i), i) = setIntensity(light, i)

\* setIntensity(2) called on a light whose colour had been set to (2,0,1)
C8_Witness ==
    /\ call.op = "setIntensity"
    /\ call.arg = 2
    /\ getColor(light) = <<2, 0, 1>>
    /\ getData(light).lightColor = <<4, 0, 2>>
    /\ IsPointLight(light)

(* C9: on a SpotLight the setters of Light and PointLight never change the  *)
(* cone angles, and setInnerConeAngle / setOuterConeAngle never change      *)
(* colour, intensity or lightColor.                                         *)
C9_ColourAndConeAreIndependent ==
    [][IsSpotLight(light) =>
         /\ call'.op \in {"setIntensity", "setColor", "setDirection",
                          "setAttenuationRadius", "setPosition", "setUpVector",
                          "setSourceRadius", "setSourceLength"} =>
              /\ getInnerConeAngle(light') = getInnerConeAngle(light)
              /\ getOuterConeAngle(light') = getOuterConeAngle(light)
         /\ call'.op \in {"setInnerConeAngle", "setOuterConeAngle"} =>
              /\ getColor(light') = getColor(light)
              /\ getIntensity(light') = getIntensity(light)
              /\ getData(light').lightColor = getData(light).lightColor]_vars

C9_Witness ==
    /\ IsSpotLight(light)
    /\ call.op = "setOuterConeAngle"
    /\ call.arg = 90
    /\ getOuterConeAngle(light) = 90
    /\ colorUpdated
    /\ getData(light).lightColor = <<4, 0, 2>>

====
